---- MODULE Spec2Model ----
(***************************************************************************)
(* PatchMind (PatchMind_MAE_CIFAR10.ipynb): the patch codec (patchify /    *)
(* unpatchify), the masking policy (random_masking over the global torch   *)
(* generator) and the masked loss (compute_loss).                          *)
(*                                                                         *)
(* A tensor is a record [err, shape, data]: data holds the elements in     *)
(* logical row-major order, shape the sizes of the axes, and err is ""     *)
(* for a value and the exception's name for a call that raised.  Indices   *)
(* are 0-based as in the source; data (a TLA+ sequence) is 1-based.        *)
(***************************************************************************)
EXTENDS Integers, Sequences, FiniteSets, TLC

VARIABLES
    pc,              \* where the notebook stands
    imgs,            \* the image batch [B, C, H, W]
    patch_size,
    patches,         \* patchify(imgs): [B, N, D]
    original_imgs,   \* unpatchify(patches)
    mask_ratio,      \* in units of 1 / RatioDen
    noise,           \* what torch.rand(B, N) returned in random_masking
    ids_shuffle,     \* noise.argsort(dim=1)
    masked_patches,
    patch_mask,
    rng,             \* the state of torch's global generator
    seeded,          \* the last seed_everything call: its seed and its number
    calls,           \* the random_masking calls made so far
    reconstructed,   \* the model's output
    loss,
    last             \* reconstructed and loss of the previous compute_loss call

vars == <<pc, imgs, patch_size, patches, original_imgs, mask_ratio, noise,
          ids_shuffle, masked_patches, patch_mask, rng, seeded, calls,
          reconstructed, loss, last>>

----------------------------------------------------------------------------
(* Bounds of the model *)

MaxB == 2
MaxC == 2
MaxHW == 4
MaxP == 2
MaxOffset == 1
MaxN == 4
MaxD == 2
MaxCells == 4
MaxNoise == 1
RatioBits == 2
Precision == 5
MaxSeed == 1
MaxEpochs == 2
MaxCalls == 3
MaxErr == 1

\* seed_everything(seed=42)
DefaultSeed == 42

----------------------------------------------------------------------------
(* Tensors *)

Tensor(shape, data) == [err |-> "", shape |-> shape, data |-> data]

Raise(kind) == [err |-> kind, shape |-> <<>>, data |-> <<>>]

None == Raise("None")

\* a float scalar: num / den in lowest terms, or nan, or inf
Scalar(kind, num, den) == [kind |-> kind, num |-> num, den |-> den]

NoLoss == Scalar("None", 0, 0)

NoLast == [set |-> FALSE, reconstructed |-> None, loss |-> NoLoss]

NotSeeded == [seed |-> 0, epoch |-> 0]

IsTensor(t) == t.err = ""

RECURSIVE Prod(_)
Prod(s) == IF s = <<>> THEN 1 ELSE Head(s) * Prod(Tail(s))

RECURSIVE SumSeq(_)
SumSeq(s) == IF s = <<>> THEN 0 ELSE Head(s) + SumSeq(Tail(s))

numel(t) == Len(t.data)

\* row-major stride of axis k (1-based axis position) of a shape
Stride(shape, k) == Prod(SubSeq(shape, k + 1, Len(shape)))

\* flat 0-based offset of a 0-based multi-index
Ravel(idx, shape) == SumSeq([k \in 1..Len(shape) |-> idx[k] * Stride(shape, k)])

\* 0-based multi-index of a flat 0-based offset
Unravel(flat, shape) ==
    [k \in 1..Len(shape) |-> (flat \div Stride(shape, k)) % shape[k]]

\* t[idx] for a 0-based multi-index
At(t, idx) == t.data[Ravel(idx, t.shape) + 1]

\* Tensor.reshape: the same elements in the same row-major order under a new
\* shape; RuntimeError ("shape is invalid for input of size") when the sizes differ
reshape(t, shape) ==
    IF ~IsTensor(t) THEN t
    ELSE IF Prod(shape) # numel(t) THEN Raise("RuntimeError")
    ELSE Tensor(shape, t.data)

\* Tensor.permute(*dims): axis k of the result is axis dims[k] of t (0-based)
permute(t, dims) ==
    IF ~IsTensor(t) THEN t
    ELSE LET n == Len(dims)
             shape == [k \in 1..n |-> t.shape[dims[k] + 1]]
             pos(a) == CHOOSE k \in 1..n : dims[k] + 1 = a
             src(j) == LET J == Unravel(j - 1, shape)
                       IN  Ravel([a \in 1..n |-> J[pos(a)]], t.shape) + 1
         IN  Tensor(shape, [j \in 1..numel(t) |-> t.data[src(j)]])

\* int(N ** 0.5): the integer part of the square root
isqrt(n) == CHOOSE r \in 0..n : r * r <= n /\ (r + 1) * (r + 1) > n

----------------------------------------------------------------------------
(* Patch codec *)

\* patchify flattening each patch channel-major instead of channel-minor
patchify_channel_major(t, p) ==
    LET B == t.shape[1]
        C == t.shape[2]
        H == t.shape[3]
        W == t.shape[4]
        h == H \div p
        w == W \div p
    IN  IF ~(H % p = 0 /\ W % p = 0) THEN Raise("AssertionError")
        ELSE reshape(permute(reshape(t, <<B, C, h, p, w, p>>), <<0, 2, 4, 1, 3, 5>>),
                     <<B, h * w, p * p * C>>)

\* patchify whose assertion tests the height alone
patchify_height_only(t, p) ==
    LET B == t.shape[1]
        C == t.shape[2]
        H == t.shape[3]
        W == t.shape[4]
        h == H \div p
        w == W \div p
    IN  IF ~(H % p = 0) THEN Raise("AssertionError")
        ELSE reshape(permute(reshape(t, <<B, C, h, p, w, p>>), <<0, 2, 4, 3, 5, 1>>),
                     <<B, h * w, p * p * C>>)

patchify(t, p) ==
    LET B == t.shape[1]
        C == t.shape[2]
        H == t.shape[3]
        W == t.shape[4]
        h == H \div p
        w == W \div p
    IN  IF ~(H % p = 0 /\ W % p = 0) THEN Raise("AssertionError")
        ELSE reshape(permute(reshape(t, <<B, C, h, p, w, p>>), <<0, 2, 4, 3, 5, 1>>),
                     <<B, h * w, p * p * C>>)

\* unpatchify that leaves the grid axes and the in-patch axes uninterleaved
unpatchify_no_interleave(t, p) ==
    LET B == t.shape[1]
        N == t.shape[2]
        D == t.shape[3]
        h == isqrt(N)
        w == isqrt(N)
        C == D \div (p * p)
    IN  reshape(permute(reshape(t, <<B, h, w, p, p, C>>), <<0, 5, 1, 2, 3, 4>>),
                <<B, C, h * p, w * p>>)

\* unpatchify that takes the grid width as N / h, accepting rectangular grids
unpatchify_rect_grid(t, p) ==
    LET B == t.shape[1]
        N == t.shape[2]
        D == t.shape[3]
        h == isqrt(N)
        w == N \div h
        C == D \div (p * p)
    IN  reshape(permute(reshape(t, <<B, h, w, p, p, C>>), <<0, 5, 1, 3, 2, 4>>),
                <<B, C, h * p, w * p>>)

unpatchify(t, p) ==
    LET B == t.shape[1]
        N == t.shape[2]
        D == t.shape[3]
        h == isqrt(N)
        w == isqrt(N)
        C == D \div (p * p)
    IN  reshape(permute(reshape(t, <<B, h, w, p, p, C>>), <<0, 5, 1, 3, 2, 4>>),
                <<B, C, h * p, w * p>>)

----------------------------------------------------------------------------
(* Image batches: shape [B, C, H, W], pixel at flat offset i is offset + i,  *)
(* so that every position of a batch carries its own value.                 *)

ImageBatch(B, C, H, W, offset) ==
    Tensor(<<B, C, H, W>>, [i \in 1..(B * C * H * W) |-> offset + i - 1])

ImageBatches ==
    { ImageBatch(B, C, H, W, o) :
        B \in 1..MaxB, C \in 1..MaxC, H \in 1..MaxHW, W \in 1..MaxHW, o \in 0..MaxOffset }

----------------------------------------------------------------------------
(* The codec: patches = patchify(imgs); original_imgs = unpatchify(patches) *)

InitCodec ==
    /\ pc = "start"
    /\ imgs \in ImageBatches
    /\ patch_size \in 1..MaxP
    /\ patches = None /\ original_imgs = None
    /\ mask_ratio = 0 /\ noise = None /\ ids_shuffle = None
    /\ masked_patches = None /\ patch_mask = None
    /\ rng = 0 /\ seeded = NotSeeded /\ calls = <<>>
    /\ reconstructed = None /\ loss = NoLoss /\ last = NoLast

Patchify ==
    /\ pc = "start"
    /\ patches' = patchify(imgs, patch_size)
    /\ pc' = IF IsTensor(patches') THEN "patchified" ELSE "error"
    /\ UNCHANGED <<imgs, patch_size, original_imgs, mask_ratio, noise, ids_shuffle,
                   masked_patches, patch_mask, rng, seeded, calls,
                   reconstructed, loss, last>>

Unpatchify ==
    /\ pc = "patchified"
    /\ original_imgs' = unpatchify(patches, patch_size)
    /\ pc' = IF IsTensor(original_imgs') THEN "done" ELSE "error"
    /\ UNCHANGED <<imgs, patch_size, patches, mask_ratio, noise, ids_shuffle,
                   masked_patches, patch_mask, rng, seeded, calls,
                   reconstructed, loss, last>>

NextCodec == Patchify \/ Unpatchify

SpecCodec == InitCodec /\ [][NextCodec]_vars

----------------------------------------------------------------------------
(* Properties of the codec (checked under SpecCodec) *)

imgB == imgs.shape[1]
imgC == imgs.shape[2]
imgH == imgs.shape[3]
imgW == imgs.shape[4]

Divisible == imgH % patch_size = 0 /\ imgW % patch_size = 0

PerfectSquare(n) == isqrt(n) * isqrt(n) = n

\* unpatchify has been applied to the result of patchify
Unpatchified == IsTensor(patches) /\ original_imgs # None

\* C1 as stated: for every image batch whose height and width are multiples of
\* the patch size, unpatchify(patchify(batch, P), P) equals the batch exactly.
C1_RoundTripAnyShape == Unpatchified => original_imgs = imgs

\* C1 as amended: for every image batch with H = W a multiple of the patch size
\* (a square image), unpatchify(patchify(batch, P), P) equals the batch exactly.
C1_RoundTripSquare == (Unpatchified /\ imgH = imgW) => original_imgs = imgs

C1_Witness ==
    /\ pc = "done" /\ imgH = imgW /\ patch_size = 2 /\ imgH = 4
    /\ imgC = 2 /\ imgB = 2 /\ original_imgs = imgs

\* C7: patchify fails with the shape assertion, at the call and before any
\* patch sequence exists, whenever the height or the width is not divisible
\* by patch_size.
C7_PatchifyRejects ==
    (pc # "start" /\ ~Divisible) =>
        /\ pc = "error"
        /\ patches.err = "AssertionError"
        /\ original_imgs = None

C7_Witness ==
    /\ pc = "error" /\ patches.err = "AssertionError"
    /\ imgH % patch_size = 0 /\ imgW % patch_size # 0

\* C8: unpatchify fails with a shape error whenever the number of patches N of
\* its input is not a perfect square; it returns no image batch for such input.
C8_UnpatchifyRejectsNonSquare ==
    (Unpatchified /\ ~PerfectSquare(patches.shape[2])) =>
        /\ pc = "error"
        /\ original_imgs.err = "RuntimeError"

C8_Witness ==
    /\ Unpatchified /\ patches.shape[2] = 2 /\ pc = "error"
    /\ original_imgs.err = "RuntimeError"

\* C9: patches are enumerated row-major over the patch grid and each patch is
\* flattened channel-minor: with w = W/P,
\* patches[b, i*w + j, (py*P + px)*C + c] = imgs[b, c, i*P + py, j*P + px],
\* and the result has shape [B, (H/P)*(W/P), P*P*C].
C9_PatchLayout ==
    IsTensor(patches) =>
        LET P == patch_size
            h == imgH \div P
            w == imgW \div P
        IN  /\ patches.shape = <<imgB, h * w, P * P * imgC>>
            /\ \A b \in 0..(imgB - 1), i \in 0..(h - 1), j \in 0..(w - 1),
                  py \in 0..(P - 1), px \in 0..(P - 1), c \in 0..(imgC - 1) :
                  At(patches, <<b, i * w + j, (py * P + px) * imgC + c>>)
                      = At(imgs, <<b, c, i * P + py, j * P + px>>)

C9_Witness ==
    /\ pc = "patchified" /\ imgC = 2 /\ patch_size = 2 /\ imgH = 4 /\ imgW = 2
    /\ imgB = 2

----------------------------------------------------------------------------
(* Masking policy *)

\* mask_ratio counts units of 1 / RatioDen: one unit is half the distance
\* between 1.0 and the float below it, the finest ratio that matters to
\* 1 - mask_ratio
RatioDen == 2 ^ (Precision + 1)

\* the ratios k / 2^RatioBits: on them, and for N up to 7, the float arithmetic
\* of 1 - mask_ratio and N * (1 - mask_ratio) is exact
Ratios == { k * (RatioDen \div (2 ^ RatioBits)) : k \in 1..((2 ^ RatioBits) - 1) }

\* those ratios and the powers of two down to one unit
FloatRatios == Ratios \cup { 2 ^ e : e \in 0..Precision }

\* the number of bits of q
RECURSIVE BitLen(_)
BitLen(q) == IF q = 0 THEN 0 ELSE 1 + BitLen(q \div 2)

\* a float result: q / RatioDen rounded to Precision significant bits, to the
\* nearest, a tie to the even mantissa (in units of 1 / RatioDen)
RoundFloat(q) ==
    IF BitLen(q) <= Precision THEN q
    ELSE LET ulp  == 2 ^ (BitLen(q) - Precision)
             m    == q \div ulp
             rest == q % ulp
         IN  IF 2 * rest > ulp \/ (2 * rest = ulp /\ m % 2 = 1)
             THEN (m + 1) * ulp
             ELSE m * ulp

\* int(N * (1 - mask_ratio)): the difference and the product are floats, int()
\* truncates, the product is never negative
len_keep_of(N, ratio) ==
    RoundFloat(N * RoundFloat(RatioDen - ratio)) \div RatioDen

\* the sequences that hold every element of S once
RECURSIVE PermsOf(_)
PermsOf(S) ==
    IF S = {} THEN { <<>> }
    ELSE UNION { { <<a>> \o p : p \in PermsOf(S \ {a}) } : a \in S }

\* the orders in which a sort that is not stable may list the indices of row b
\* of a [B, N] tensor by ascending value: equal values come out in any order
RowOrders(t, b) ==
    LET N == t.shape[2]
        val(n) == t.data[b * N + n + 1]
    IN  { p \in PermsOf(0..(N - 1)) : \A k \in 1..(N - 1) : val(p[k]) <= val(p[k + 1]) }

\* the row-major data of rows b.. of the argsort results
RECURSIVE ArgsortFrom(_, _)
ArgsortFrom(t, b) ==
    IF b = t.shape[1] THEN { <<>> }
    ELSE { p \o rest : p \in RowOrders(t, b), rest \in ArgsortFrom(t, b + 1) }

\* Tensor.argsort(dim=1) of a [B, N] tensor: every row of the result lists the
\* row's indices by ascending value; with equal values the result is one of a set
argsort(t) == { Tensor(t.shape, d) : d \in ArgsortFrom(t, 0) }

\* torch.gather(t, dim=1, index): out[b][n] = t[b][index[b][n]]
gather(t, index) ==
    LET N == index.shape[2]
    IN  Tensor(index.shape,
               [i \in 1..numel(index) |->
                   t.data[((i - 1) \div N) * t.shape[2] + index.data[i] + 1]])

\* the mask gathered through ids_shuffle instead of ids_restore
random_masking_gather_shuffle(t, ratio, drawn, shuffle) ==
    LET B == t.shape[1]
        N == t.shape[2]
        D == t.shape[3]
        len_keep == len_keep_of(N, ratio)
        ids_keep(b) == { At(shuffle, <<b, k>>) : k \in 0..(len_keep - 1) }
        ones == Tensor(<<B, N>>, [i \in 1..(B * N) |-> IF (i - 1) % N < len_keep THEN 0 ELSE 1])
        mask == gather(ones, shuffle)
        masked == Tensor(t.shape,
                      [i \in 1..numel(t) |->
                          LET idx == Unravel(i - 1, t.shape)
                          IN  IF idx[2] \in ids_keep(idx[1]) THEN t.data[i] ELSE 0])
    IN  [masked |-> masked, mask |-> mask]

\* ids_restore taken as the rank "how many values are smaller", which gives
\* equal noise values the same rank
random_masking_rank_restore(t, ratio, drawn, shuffle) ==
    LET B == t.shape[1]
        N == t.shape[2]
        D == t.shape[3]
        len_keep == len_keep_of(N, ratio)
        ids_restore == Tensor(<<B, N>>,
                          [i \in 1..(B * N) |->
                              Cardinality({ k \in 0..(N - 1) :
                                  At(drawn, <<(i - 1) \div N, k>>) < drawn.data[i] })])
        ids_keep(b) == { At(shuffle, <<b, k>>) : k \in 0..(len_keep - 1) }
        ones == Tensor(<<B, N>>, [i \in 1..(B * N) |-> IF (i - 1) % N < len_keep THEN 0 ELSE 1])
        mask == gather(ones, ids_restore)
        masked == Tensor(t.shape,
                      [i \in 1..numel(t) |->
                          LET idx == Unravel(i - 1, t.shape)
                          IN  IF idx[2] \in ids_keep(idx[1]) THEN t.data[i] ELSE 0])
    IN  [masked |-> masked, mask |-> mask]

\* random_masking(patches, mask_ratio), given what torch.rand drew (drawn, the
\* source's noise) and the order noise.argsort(dim=1) returned (shuffle, the
\* source's ids_shuffle, one of argsort(drawn))
random_masking(t, ratio, drawn, shuffle) ==
    LET B == t.shape[1]
        N == t.shape[2]
        D == t.shape[3]
        len_keep == len_keep_of(N, ratio)
        ids_keep(b) == { At(shuffle, <<b, k>>) : k \in 0..(len_keep - 1) }
        ones == Tensor(<<B, N>>, [i \in 1..(B * N) |-> IF (i - 1) % N < len_keep THEN 0 ELSE 1])
        masked == Tensor(t.shape,
                      [i \in 1..numel(t) |->
                          LET idx == Unravel(i - 1, t.shape)
                          IN  IF idx[2] \in ids_keep(idx[1]) THEN t.data[i] ELSE 0])
        returns(ids_restore) == [masked |-> masked, mask |-> gather(ones, ids_restore)]
    \* ids_restore = ids_shuffle.argsort(dim=1): ids_shuffle holds no equal values
    IN  CHOOSE r \in { returns(ids_restore) : ids_restore \in argsort(shuffle) } : TRUE

\* patch sequences: shape [B, N, D], every element nonzero and its own value
PatchBatch(B, N, D, offset) ==
    Tensor(<<B, N, D>>, [i \in 1..(B * N * D) |-> offset + i])

PatchShapes ==
    { s \in (1..MaxB) \X (1..MaxN) \X (1..MaxD) : s[1] * s[2] <= MaxCells }

PatchBatches == { PatchBatch(s[1], s[2], s[3], 0) : s \in PatchShapes }

\* what torch.rand(B, N) can return, up to the order of the values
NoiseOf(B, N) == { Tensor(<<B, N>>, d) : d \in [1..(B * N) -> 0..MaxNoise] }

InitMask ==
    /\ pc = "start"
    /\ patches \in PatchBatches
    /\ mask_ratio \in Ratios
    /\ imgs = None /\ patch_size = 0 /\ original_imgs = None
    /\ noise = None /\ ids_shuffle = None /\ masked_patches = None /\ patch_mask = None
    /\ rng = 0 /\ seeded = NotSeeded /\ calls = <<>>
    /\ reconstructed = None /\ loss = NoLoss /\ last = NoLast

RandomMasking ==
    /\ pc = "start"
    /\ \E drawn \in NoiseOf(patches.shape[1], patches.shape[2]) :
         \E shuffle \in argsort(drawn) :
            LET r == random_masking(patches, mask_ratio, drawn, shuffle)
            IN  /\ noise' = drawn
                /\ ids_shuffle' = shuffle
                /\ masked_patches' = r.masked
                /\ patch_mask' = r.mask
    /\ pc' = "masked"
    /\ UNCHANGED <<imgs, patch_size, patches, original_imgs, mask_ratio,
                   rng, seeded, calls, reconstructed, loss, last>>

NextMask == RandomMasking

SpecMask == InitMask /\ [][NextMask]_vars

\* the patch vector t[b, n, :]
PatchAt(t, b, n) == [d \in 1..t.shape[3] |-> At(t, <<b, n, d - 1>>)]

\* ids_keep[b] = ids_shuffle[b, :len_keep]
IdsKeep(b) ==
    { At(ids_shuffle, <<b, k>>) :
        k \in 0..(len_keep_of(patches.shape[2], mask_ratio) - 1) }

\* C2: the masked sequence equals the original patch wherever the mask is 0
\* and the zero vector wherever it is 1, and the mask flags exactly the
\* original indices that are not in ids_keep, for every draw.
C2_MaskAlignment ==
    pc = "masked" =>
        \A b \in 0..(patches.shape[1] - 1), n \in 0..(patches.shape[2] - 1) :
            /\ At(patch_mask, <<b, n>>) \in {0, 1}
            /\ At(patch_mask, <<b, n>>) = 0 =>
                  PatchAt(masked_patches, b, n) = PatchAt(patches, b, n)
            /\ At(patch_mask, <<b, n>>) = 1 =>
                  PatchAt(masked_patches, b, n) = [d \in 1..patches.shape[3] |-> 0]
            /\ At(patch_mask, <<b, n>>) = 1 <=> n \notin IdsKeep(b)

\* a draw that keeps the last patch of the second image and hides its first
C2_Witness ==
    /\ pc = "masked" /\ patches.shape[1] = 2 /\ patches.shape[2] = 2
    /\ At(patch_mask, <<1, 0>>) = 1 /\ At(patch_mask, <<1, 1>>) = 0
    /\ At(patch_mask, <<0, 0>>) = 0
    /\ PatchAt(masked_patches, 1, 1) = PatchAt(patches, 1, 1)

----------------------------------------------------------------------------
(* The global generator.  torch.rand reads and advances one process-wide     *)
(* generator, which seed_everything resets.  The generator is modelled as a  *)
(* full-period congruential generator on 16 states: a draw is a function of  *)
(* the state, every draw moves the state, and no value repeats within a call.*)

lcg(s) == (5 * s + 3) % 16

\* torch.manual_seed(seed): the generator's state is a function of the seed
seed_everything(seed) == seed % 16

\* the next k draws from state s
RECURSIVE draws(_, _)
draws(s, k) == IF k = 0 THEN <<>> ELSE <<lcg(s)>> \o draws(lcg(s), k - 1)

\* torch.rand(B, N) on the global generator in state s: the noise and the
\* state the generator is left in
rand(s, B, N) ==
    LET d == draws(s, B * N)
    IN  [noise |-> Tensor(<<B, N>>, d), state |-> d[B * N]]

Seeds == {DefaultSeed} \cup 0..MaxSeed

\* the batches two independent callers mask
Callers == {"x", "y"}

SeedShapes == { s \in PatchShapes : s[3] = 1 /\ s[1] * s[2] = MaxCells }

\* the state after the notebook's seed_everything() cell
InitSeed ==
    /\ pc = "seeded"
    /\ rng = seed_everything(DefaultSeed)
    /\ seeded = [seed |-> DefaultSeed, epoch |-> 0]
    /\ calls = <<>>
    /\ mask_ratio \in Ratios
    /\ imgs = None /\ patch_size = 0 /\ patches = None /\ original_imgs = None
    /\ noise = None /\ ids_shuffle = None /\ masked_patches = None /\ patch_mask = None
    /\ reconstructed = None /\ loss = NoLoss /\ last = NoLast

SeedEverything ==
    /\ seeded.epoch < MaxEpochs
    /\ \E seed \in Seeds :
          /\ rng' = seed_everything(seed)
          /\ seeded' = [seed |-> seed, epoch |-> seeded.epoch + 1]
    /\ pc' = "seeded"
    /\ UNCHANGED <<imgs, patch_size, patches, original_imgs, mask_ratio, noise,
                   ids_shuffle, masked_patches, patch_mask, calls,
                   reconstructed, loss, last>>

\* how many calls this caller made since the last seed_everything
CallsSinceSeed(who) ==
    Cardinality({ i \in 1..Len(calls) :
                    calls[i].epoch = seeded.epoch /\ calls[i].caller = who })

\* random_masking(patches, mask_ratio) by one of the callers: the function takes
\* no generator, torch.rand draws from the global one
RandomMaskingSeeded ==
    /\ Len(calls) < MaxCalls
    /\ \E who \in Callers, shape \in SeedShapes :
         LET batch == PatchBatch(shape[1], shape[2], shape[3], 0)
             drawn == rand(rng, shape[1], shape[2])
             shuffle == CHOOSE o \in argsort(drawn.noise) : TRUE
             r == random_masking(batch, mask_ratio, drawn.noise, shuffle)
         IN  /\ patches' = batch
             /\ noise' = drawn.noise
             /\ rng' = drawn.state
             /\ ids_shuffle' = shuffle
             /\ masked_patches' = r.masked
             /\ patch_mask' = r.mask
             /\ calls' = Append(calls,
                            [caller |-> who, seed |-> seeded.seed, epoch |-> seeded.epoch,
                             nth |-> CallsSinceSeed(who), shape |-> shape, mask |-> r.mask])
    /\ pc' = "masked"
    /\ UNCHANGED <<imgs, patch_size, original_imgs, mask_ratio, seeded,
                   reconstructed, loss, last>>

NextSeed == SeedEverything \/ RandomMaskingSeeded

SpecSeed == InitSeed /\ [][NextSeed]_vars

\* C6: a caller that seeds its generator alike and has drawn from it alike gets
\* the same mask for the same input shape, whatever random_masking calls other
\* callers made in between.
C6_SeededDeterminism ==
    \A i, j \in 1..Len(calls) :
        ( /\ calls[i].caller = calls[j].caller
          /\ calls[i].seed = calls[j].seed
          /\ calls[i].nth = calls[j].nth
          /\ calls[i].shape = calls[j].shape )
        => calls[i].mask = calls[j].mask

----------------------------------------------------------------------------
(* Masked loss *)

RECURSIVE GCD(_, _)
GCD(a, b) == IF b = 0 THEN a ELSE GCD(b, a % b)

\* the float n / d, d > 0, in lowest terms
Frac(n, d) == Scalar("num", n \div GCD(n, d), d \div GCD(n, d))

Zero == Frac(0, 1)

NaN == Scalar("nan", 0, 0)

Inf == Scalar("inf", 0, 0)

RAdd(a, b) ==
    IF a.kind # "num" \/ b.kind # "num" THEN NaN
    ELSE Frac(a.num * b.den + b.num * a.den, a.den * b.den)

\* a * k for a mask entry k (0 or 1)
RTimes(a, k) == IF a.kind # "num" THEN NaN ELSE Frac(a.num * k, a.den)

\* float division a / k for k >= 0: nothing is raised, 0 / 0 is nan, x / 0 is inf
RDivide(a, k) ==
    IF a.kind # "num" THEN NaN
    ELSE IF k = 0 THEN (IF a.num = 0 THEN NaN ELSE Inf)
    ELSE Frac(a.num, a.den * k)

RECURSIVE RSum(_)
RSum(seq) == IF seq = <<>> THEN Zero ELSE RAdd(Head(seq), RSum(Tail(seq)))

\* ((original - reconstructed) ** 2).mean(dim=-1) at [b, n]
SquaredError(o, r, b, n) ==
    LET D == o.shape[3]
    IN  Frac(SumSeq([d \in 1..D |->
                (At(o, <<b, n, d - 1>>) - At(r, <<b, n, d - 1>>))
              * (At(o, <<b, n, d - 1>>) - At(r, <<b, n, d - 1>>))]), D)

\* compute_loss without the product by the mask
compute_loss_unmasked(o, r, m) ==
    LET B == o.shape[1]
        N == o.shape[2]
        per_patch == [i \in 1..(B * N) |-> SquaredError(o, r, (i - 1) \div N, (i - 1) % N)]
    IN  RDivide(RSum(per_patch), SumSeq(m.data))

\* compute_loss with the error taken as original + reconstructed
compute_loss_sign(o, r, m) ==
    LET B == o.shape[1]
        N == o.shape[2]
        D == o.shape[3]
        per_patch == [i \in 1..(B * N) |->
            Frac(SumSeq([d \in 1..D |->
                    (At(o, <<(i - 1) \div N, (i - 1) % N, d - 1>>)
                        + At(r, <<(i - 1) \div N, (i - 1) % N, d - 1>>))
                  * (At(o, <<(i - 1) \div N, (i - 1) % N, d - 1>>)
                        + At(r, <<(i - 1) \div N, (i - 1) % N, d - 1>>))]), D)]
        weighted == [i \in 1..(B * N) |-> RTimes(per_patch[i], m.data[i])]
    IN  RDivide(RSum(weighted), SumSeq(m.data))

compute_loss(o, r, m) ==
    LET B == o.shape[1]
        N == o.shape[2]
        per_patch == [i \in 1..(B * N) |-> SquaredError(o, r, (i - 1) \div N, (i - 1) % N)]
        weighted == [i \in 1..(B * N) |-> RTimes(per_patch[i], m.data[i])]
    IN  RDivide(RSum(weighted), SumSeq(m.data))

LossShapes == { s \in PatchShapes : s[1] * s[2] * s[3] <= MaxCells }

\* the original patch sequences: all ones, or every element its own value
Originals ==
    { PatchBatch(s[1], s[2], s[3], 0) : s \in LossShapes }
        \cup { Tensor(s, [i \in 1..(s[1] * s[2] * s[3]) |-> 1]) : s \in LossShapes }

\* every [B, N] mask of zeros and ones, the all-zero mask included
MasksOf(B, N) == { Tensor(<<B, N>>, d) : d \in [1..(B * N) -> {0, 1}] }

\* what the model can return for a batch: the batch plus an error per element
OutputsFor(t) ==
    { Tensor(t.shape, [i \in 1..numel(t) |-> t.data[i] + e[i]]) :
        e \in [1..numel(t) -> 0..MaxErr] }

\* the outputs that differ from r in the one patch [b, n]
OutputsNear(t, r) ==
    { o \in OutputsFor(t) :
        /\ o # r
        /\ \E b \in 0..(t.shape[1] - 1), n \in 0..(t.shape[2] - 1) :
              \A i \in 1..numel(t) :
                 Unravel(i - 1, t.shape)[1] # b \/ Unravel(i - 1, t.shape)[2] # n
                    => o.data[i] = r.data[i] }

InitLoss ==
    /\ pc = "start"
    /\ patches \in Originals
    /\ patch_mask \in { m \in UNION { MasksOf(s[1], s[2]) : s \in LossShapes } :
                          m.shape = <<patches.shape[1], patches.shape[2]>> }
    /\ imgs = None /\ patch_size = 0 /\ original_imgs = None /\ mask_ratio = 0
    /\ noise = None /\ ids_shuffle = None /\ masked_patches = None
    /\ rng = 0 /\ seeded = NotSeeded /\ calls = <<>>
    /\ reconstructed = None /\ loss = NoLoss /\ last = NoLast

\* reconstructed = model(masked_patches)
Forward ==
    /\ pc = "start"
    /\ reconstructed' \in OutputsFor(patches)
    /\ pc' = "forward"
    /\ UNCHANGED <<imgs, patch_size, patches, original_imgs, mask_ratio, noise,
                   ids_shuffle, masked_patches, patch_mask, rng, seeded, calls,
                   loss, last>>

\* loss = compute_loss(patches, reconstructed, patch_mask)
ComputeLoss ==
    /\ pc = "forward"
    /\ loss' = compute_loss(patches, reconstructed, patch_mask)
    /\ pc' = "loss"
    /\ UNCHANGED <<imgs, patch_size, patches, original_imgs, mask_ratio, noise,
                   ids_shuffle, masked_patches, patch_mask, rng, seeded, calls,
                   reconstructed, last>>

\* the model run again on the same batch, its output changed in one patch
Reforward ==
    /\ pc = "loss"
    /\ ~last.set
    /\ reconstructed' \in OutputsNear(patches, reconstructed)
    /\ last' = [set |-> TRUE, reconstructed |-> reconstructed, loss |-> loss]
    /\ pc' = "forward"
    /\ UNCHANGED <<imgs, patch_size, patches, original_imgs, mask_ratio, noise,
                   ids_shuffle, masked_patches, patch_mask, rng, seeded, calls,
                   loss>>

NextLoss == Forward \/ ComputeLoss \/ Reforward

SpecLoss == InitLoss /\ [][NextLoss]_vars

HasHidden == \E i \in 1..numel(patch_mask) : patch_mask.data[i] = 1

\* r1 and r2 hold the same values at every hidden position (mask = 1)
AgreeOnHidden(r1, r2) ==
    \A i \in 1..numel(r1) :
        LET idx == Unravel(i - 1, r1.shape)
        IN  At(patch_mask, <<idx[1], idx[2]>>) = 1 => r1.data[i] = r2.data[i]

\* both compute_loss calls have returned
ComputedTwice == pc = "loss" /\ last.set

\* C4: with the original and the mask fixed and at least one hidden patch, two
\* reconstructions that agree at every hidden position give the same loss.
\* (The two differ in one visible patch; a difference in several visible
\* patches is a chain of such steps.)
C4_VisibleErrorIgnored ==
    (ComputedTwice /\ HasHidden /\ AgreeOnHidden(last.reconstructed, reconstructed))
        => loss = last.loss

C4_Witness ==
    /\ ComputedTwice /\ HasHidden
    /\ AgreeOnHidden(last.reconstructed, reconstructed)
    /\ reconstructed # last.reconstructed
    /\ loss.kind = "num" /\ loss.num > 0
    /\ patches.shape[1] = 2

\* C5 as stated: called with an all-zero mask, compute_loss raises a defined
\* error or returns the sentinel 0.
C5_EmptyMaskDefined ==
    (pc = "loss" /\ ~HasHidden) => (loss.kind = "raised" \/ loss = Zero)

\* C10: compute_loss(original, original, mask) is 0 for every mask with at
\* least one hidden patch.
C10_PerfectReconstruction ==
    (pc = "loss" /\ HasHidden /\ reconstructed = patches) => loss = Zero

C10_Witness ==
    /\ pc = "loss" /\ reconstructed = patches /\ loss = Zero
    /\ \E i \in 1..numel(patch_mask) : patch_mask.data[i] = 1
    /\ \E i \in 1..numel(patch_mask) : patch_mask.data[i] = 0
    /\ patches.shape[3] = 2

----------------------------------------------------------------------------
(* One step of the training loop: patches = patchify(imgs); masked_patches,  *)
(* patch_mask = random_masking(patches, mask_ratio); reconstructed =          *)
(* model(masked_patches); loss = compute_loss(patches, reconstructed,         *)
(* patch_mask).  Nothing of one step is read by the next.                     *)

\* the batches of the loader, the patch grid kept within MaxCells cells
TrainBatches ==
    { ImageBatch(B, C, H, W, 0) :
        B \in 1..MaxB, C \in 1..MaxC, H \in 1..MaxHW, W \in 1..MaxHW }

\* what the model returns for a batch: the batch plus one error on every element
TrainOutputs(t) ==
    { Tensor(t.shape, [i \in 1..numel(t) |-> t.data[i] + e]) : e \in 0..MaxErr }

\* mask_ratio is any float of (0, 1)
InitTrain ==
    /\ pc = "start"
    /\ imgs \in TrainBatches
    /\ patch_size \in 1..MaxP
    /\ imgs.shape[1] * (imgs.shape[3] \div patch_size) * (imgs.shape[4] \div patch_size)
          <= MaxCells
    /\ numel(imgs) <= 2 * MaxCells
    /\ mask_ratio \in FloatRatios
    /\ patches = None /\ original_imgs = None
    /\ noise = None /\ ids_shuffle = None /\ masked_patches = None /\ patch_mask = None
    /\ rng = 0 /\ seeded = NotSeeded /\ calls = <<>>
    /\ reconstructed = None /\ loss = NoLoss /\ last = NoLast

\* Step 2: masked_patches, patch_mask = random_masking(patches, mask_ratio)
TrainMasking ==
    /\ pc = "patchified"
    /\ \E drawn \in NoiseOf(patches.shape[1], patches.shape[2]) :
         \E shuffle \in argsort(drawn) :
            LET r == random_masking(patches, mask_ratio, drawn, shuffle)
            IN  /\ noise' = drawn
                /\ ids_shuffle' = shuffle
                /\ masked_patches' = r.masked
                /\ patch_mask' = r.mask
    /\ pc' = "masked"
    /\ UNCHANGED <<imgs, patch_size, patches, original_imgs, mask_ratio,
                   rng, seeded, calls, reconstructed, loss, last>>

\* Step 3: reconstructed = model(masked_patches)
TrainForward ==
    /\ pc = "masked"
    /\ reconstructed' \in TrainOutputs(patches)
    /\ pc' = "forward"
    /\ UNCHANGED <<imgs, patch_size, patches, original_imgs, mask_ratio, noise,
                   ids_shuffle, masked_patches, patch_mask, rng, seeded, calls,
                   loss, last>>

\* Step 1 is Patchify, step 4 is ComputeLoss
NextTrain == Patchify \/ TrainMasking \/ TrainForward \/ ComputeLoss

SpecTrain == InitTrain /\ [][NextTrain]_vars

\* random_masking has returned the mask of this step
Masked == pc \in {"masked", "forward", "loss"}

\* row b of the mask holds a hidden patch
RowHasHidden(b) ==
    \E n \in 0..(patch_mask.shape[2] - 1) : At(patch_mask, <<b, n>>) = 1

\* C11: in every training step, for every mask_ratio in (0, 1), the mask
\* handed to compute_loss has a hidden patch in every row, so mask.sum() is not
\* zero and the loss is a number; mask.sum() is zero only when len_keep
\* equals N.
C11_DenominatorNonZero ==
    /\ Masked =>
          /\ \A b \in 0..(patch_mask.shape[1] - 1) : RowHasHidden(b)
          /\ SumSeq(patch_mask.data) > 0
          /\ SumSeq(patch_mask.data) = 0 =>
                len_keep_of(patches.shape[2], mask_ratio) = patches.shape[2]
    /\ pc = "loss" => loss.kind = "num"

====
